---- MODULE Spec2Model ----
(***************************************************************************)
(* EnmapProvider (src/src/index.js): a persistence adapter that backs an   *)
(* in-memory Map (the "enmap") with one MongoDB collection.  The adapter   *)
(* is modelled together with the part of the store it talks to: the        *)
(* collection, the operations in flight to it and the change stream.       *)
(***************************************************************************)
EXTENDS Integers, Sequences, FiniteSets, TLC

VARIABLES
    optName,        \* options.name as given to the constructor (a sequence of characters)
    name,           \* this.name
    fetchAll,       \* this.fetchAll (set on the provider by its owner, never by the constructor)
    documentTTL,    \* this.documentTTL
    monitorChanges, \* this.monitorChanges
    pc,             \* where the constructor / the async function init stands
    ready,          \* whether this.ready() has been called: this.defer is resolved
    closed,         \* whether close() has closed this.client
    enmap,          \* the Map handed to init: a function from its keys to their values
    docs,           \* the collection: a function from the _id of each document to the document
    collExists,     \* whether the collection exists in the database
    ttlIndex,       \* whether the collection has the index {expireAt: 1}, expireAfterSeconds 0
    pending,        \* the write operations started on this.db and not yet applied by the server
    stream,         \* the change stream of init: "none", "opening", "open", "invalidated", "closed"
    feed,           \* the change events the stream has still to hand to the "change" listener
    handled,        \* history: the last event handed to the "change" listener
    rows,           \* the result of db.find({}).toArray() that fetchEverything awaits
    fetchReq,       \* the db.findOne of fetch that the server has still to answer
    fetched,        \* the answer of the last db.findOne
    setResult,      \* how the last call of set ended: "none", "ok", "ValidationError", "TypeError"
    rejectedKey,    \* history: the key of the last call of set that threw the validation error
    bulk,           \* the promise bulkDelete returned: "none", "pending", "applied", "resolved", "rejected"
    calls,          \* how many adapter methods have been called after init
    extWrites,      \* how many writes other processes have committed to the collection
    delSince,       \* history: keys k with a delete(k) that has returned and no set(k) called since
    gone,           \* history: keys of delSince whose remove was applied with no upsert of the key in flight
    bulkNoSet,      \* history: no set has been called since bulkDelete was called
    bulkClean,      \* history: bulkNoSet, and no upsert was in flight when the drop was applied
    tracked,        \* whether this run keeps delSince, gone, bulkNoSet and bulkClean
    opens,          \* history: how many times MongoClient.connect has been called
    closes,         \* history: how many times this.client.close() has been called
    lastSet         \* history: the value last handed to set under each key

vars == <<optName, name, fetchAll, documentTTL, monitorChanges, pc, ready, closed, enmap,
          docs, collExists, ttlIndex, pending, stream, feed, handled, rows, fetchReq, fetched,
          setResult, rejectedKey, bulk, calls, extWrites, delSince, gone, bulkNoSet, bulkClean,
          tracked, opens, closes, lastSet>>

----------------------------------------------------------------------------
(* Bounds of the model. *)

MaxNameLen == 3     \* names of up to this many characters are enumerated
MaxCalls == 3       \* adapter calls (set, delete, fetch, bulkDelete, close) made in one run
MaxFeedCalls == 2   \* the same, where the change stream is explored
MaxExt == 1         \* writes committed by other processes in one run
MaxOpens == 2       \* calls of init on one adapter in one run

----------------------------------------------------------------------------
(* Strings are sequences of one-character strings. *)

LowerAlpha == <<"a","b","c","d","e","f","g","h","i","j","k","l","m",
                "n","o","p","q","r","s","t","u","v","w","x","y","z">>
UpperAlpha == <<"A","B","C","D","E","F","G","H","I","J","K","L","M",
                "N","O","P","Q","R","S","T","U","V","W","X","Y","Z">>
Digits == {"0","1","2","3","4","5","6","7","8","9"}

Range(s) == {s[i] : i \in 1..Len(s)}

IndexOf(s, c) == CHOOSE i \in 1..Len(s) : s[i] = c

\* The characters names are built of: letters of both cases, a digit, and
\* characters outside [A-Za-z0-9].
NameChars == {"a", "M", "7", "_", " ", "!"}

MyCollection == <<"M","y"," ","C","o","l","l","e","c","t","i","o","n","!">>

Names == UNION {[1..n -> NameChars] : n \in 0..MaxNameLen} \cup {MyCollection}

\* String.prototype.toLowerCase, one character.
toLowerChar(c) ==
    IF c \in Range(UpperAlpha) THEN LowerAlpha[IndexOf(UpperAlpha, c)] ELSE c

\* String.prototype.toLowerCase.
toLowerCase(s) == [i \in 1..Len(s) |-> toLowerChar(s[i])]

\* Whether the class [^a-z0-9] matches c without the flag i.
MutMatchesCaseSensitive(c) == c \notin Range(LowerAlpha) \cup Digits

\* Whether /[^a-z0-9]/gi matches the character c: with the flag i a letter of
\* either case is in the class a-z, so the negated class leaves both out.
MatchesNonAlnum(c) ==
    c \notin Range(LowerAlpha) \cup Range(UpperAlpha) \cup Digits

\* s.replace(/[^a-z0-9]/gi, '_'): the flag g replaces every match.
replaceNonAlnum(s) == [i \in 1..Len(s) |-> IF MatchesNonAlnum(s[i]) THEN "_" ELSE s[i]]

\* validateName: this.name.replace(/[^a-z0-9]/gi, '_').toLowerCase()
validateName(n) == toLowerCase(replaceNonAlnum(n))

----------------------------------------------------------------------------
(* Keys, values and documents.  A key is named by its JavaScript literal. *)

Keys == {"'a'", "1", "''", "0", "NaN", "null", "undefined", "true", "false", "{}", "Symbol()"}

\* typeof key
TypeOf(k) ==
    CASE k \in {"'a'", "''"} -> "string"
      [] k \in {"1", "0", "NaN"} -> "number"
      [] k \in {"true", "false"} -> "boolean"
      [] k = "undefined" -> "undefined"
      [] k = "Symbol()" -> "symbol"
      [] OTHER -> "object"

\* ToBoolean(key): '', 0, NaN, null, undefined and false are falsy.
Truthy(k) == k \notin {"''", "0", "NaN", "null", "undefined", "false"}

\* key.constructor.name, for the keys that have a constructor.
ConstructorName(k) ==
    CASE TypeOf(k) = "string" -> "String"
      [] TypeOf(k) = "number" -> "Number"
      [] TypeOf(k) = "boolean" -> "Boolean"
      [] TypeOf(k) = "symbol" -> "Symbol"
      [] k = "{}" -> "Object"
      [] OTHER -> "(TypeError)"

\* The keys the callers of delete and fetch and the other processes use.
StoreKeys == {"'a'", "1"}


Fields == {"f", "g"}
FieldVals == {0, 1}
Values == [Fields -> FieldVals]

\* The ttl argument of set: left out, a falsy value, an instant.
TtlArgs == {"undefined", "0", "T1"}
TtlTruthy(t) == t = "T1"

EmptyMap == <<>>

\* Map.prototype.set.call(m, k, v)
MapSet(m, k, v) == [x \in DOMAIN m \cup {k} |-> IF x = k THEN v ELSE m[x]]

\* Map.prototype.delete.call(m, k)
MapDelete(m, k) == [x \in DOMAIN m \ {k} |-> m[x]]

\* A set that leaves the ttl out of every document.
MutDocNeverExpires(k, v, t) == [_id |-> k, value |-> v]

\* The document set writes: { _id: key, value: val, expireAt: ttl } under
\* "if (ttl)", { _id: key, value: val } otherwise.
Doc(k, v, t) ==
    IF TtlTruthy(t) THEN [_id |-> k, value |-> v, expireAt |-> t]
                    ELSE [_id |-> k, value |-> v]

V00 == [f |-> 0, g |-> 0]
V10 == [f |-> 1, g |-> 0]
V01 == [f |-> 0, g |-> 1]

\* The values set is called with, and the values other processes write.
SetValues == {V10, V01}
ExtValues == {V00}

\* What the collection may hold when the adapter is constructed.
InitialStores ==
    { EmptyMap,
      MapSet(MapSet(EmptyMap, "'a'", Doc("'a'", V10, "undefined")), "1", Doc("1", V00, "T1")) }

\* What the Map may hold when it is handed to init.
InitialMaps == { EmptyMap, MapSet(EmptyMap, "0", V10) }

----------------------------------------------------------------------------
(* The state after new EnmapProvider({name: "My Collection!", ...}). *)

Init ==
    /\ optName = MyCollection
    /\ name = validateName(MyCollection)
    /\ fetchAll \in BOOLEAN
    /\ documentTTL \in BOOLEAN
    /\ monitorChanges \in BOOLEAN
    /\ pc = "constructed"
    /\ ready = FALSE
    /\ closed = FALSE
    /\ enmap \in InitialMaps
    /\ docs \in InitialStores
    /\ collExists = (docs # EmptyMap)
    /\ ttlIndex = FALSE
    /\ pending = <<>>
    /\ stream = "none"
    /\ feed = <<>>
    /\ handled = <<>>
    /\ rows = {}
    /\ fetchReq = <<>>
    /\ fetched = <<>>
    /\ setResult = "none"
    /\ rejectedKey = "undefined"
    /\ bulk = "none"
    /\ calls = 0
    /\ extWrites = 0
    /\ delSince = {}
    /\ gone = {}
    /\ bulkNoSet = FALSE
    /\ bulkClean = FALSE
    /\ tracked \in BOOLEAN
    /\ opens = 0
    /\ closes = 0
    /\ lastSet = EmptyMap

config == <<optName, name, fetchAll, documentTTL, monitorChanges>>
history == <<delSince, gone, bulkNoSet, bulkClean, handled, tracked>>
callState == <<fetchReq, fetched, setResult, rejectedKey, bulk, calls>>
store == <<docs, collExists, ttlIndex>>
conn == <<opens, closes>>

\* this.db is assigned once the connection is there (line 32).
DbDefined == pc \in {"scanning", "scanned", "done"}

\* The events the change stream records: only an established stream sees a change.
Emit(evs) == IF stream = "open" THEN feed \o evs ELSE feed

----------------------------------------------------------------------------
(* The constructor, lines 5-22. *)

\* new EnmapProvider({name: n, documentTTL: ttl, monitorChanges: mon}): an empty
\* name is falsy and throws (line 10); otherwise the name is kept and
\* validateName rewrites it (lines 11-13).
Constructor(n, ttl, mon) ==
    /\ pc = "new"
    /\ IF n = <<>>
         THEN /\ pc' = "threw"
              /\ UNCHANGED <<optName, name, documentTTL, monitorChanges>>
         ELSE /\ pc' = "constructed"
              /\ optName' = n
              /\ name' = validateName(n)
              /\ documentTTL' = ttl
              /\ monitorChanges' = mon
    /\ UNCHANGED <<fetchAll, ready, closed, enmap, store, pending, stream, feed, rows,
                   callState, extWrites, history, conn, lastSet>>

----------------------------------------------------------------------------
(* init(enmap) *)

\* Lines 30-31: this.enmap = enmap, then MongoClient.connect is called and
\* awaited (the adapter is constructed without options.sc, a client of the owner).
InitCall ==
    /\ pc = "constructed"
    /\ pc' = "connecting"
    /\ opens' = opens + 1
    /\ UNCHANGED <<config, closes, lastSet, ready, closed, enmap, store, pending, stream, feed, rows,
                   callState, extWrites, history>>

\* init(enmap) called again by the owner after the promise of the call before
\* was rejected by a failed connection: line 31 calls MongoClient.connect again.
InitRetry ==
    /\ pc = "failed"
    /\ ~closed
    /\ opens < MaxOpens
    /\ pc' = "connecting"
    /\ opens' = opens + 1
    /\ UNCHANGED <<config, closes, lastSet, ready, closed, enmap, store, pending, stream, feed,
                   rows, callState, extWrites, history>>

\* db.watch(...) and changeStream.on("change", ...) under monitorChanges === true:
\* the stream is asked for; on a closed client it never opens.
WatchAsked == IF ~monitorChanges THEN stream
              ELSE IF closed THEN "closed" ELSE "opening"

\* An init that catches the failed connection and calls this.ready() all the same.
MutConnectFailResolves ==
    /\ pc = "connecting"
    /\ pc' = "failed"
    /\ ready' = TRUE
    /\ UNCHANGED <<config, conn, lastSet, closed, enmap, store, pending, stream, feed, rows,
                   callState, extWrites, history>>

\* The connection fails: the await throws and init's promise is rejected.
ConnectFail ==
    /\ pc = "connecting"
    /\ pc' = "failed"
    /\ UNCHANGED <<config, conn, lastSet, ready, closed, enmap, store, pending, stream, feed, rows,
                   callState, extWrites, history>>

\* An init that calls this.ready() before the await of fetchEverything.
MutReadyBeforeScan ==
    /\ pc = "connecting"
    /\ pending' = IF documentTTL THEN Append(pending, [op |-> "createIndex"]) ELSE pending
    /\ ready' = TRUE
    /\ IF fetchAll
         THEN /\ pc' = "scanning"
              /\ UNCHANGED stream
         ELSE /\ pc' = "done"
              /\ stream' = WatchAsked
    /\ UNCHANGED <<config, conn, lastSet, closed, enmap, store, feed, rows, callState, extWrites, history>>

\* Lines 31-41 after the connection is there: this.db, createIndex under
\* documentTTL (not awaited), then either the await of fetchEverything or
\* this.ready() and the change stream (lines 42-52).
ConnectOk ==
    /\ pc = "connecting"
    /\ pending' = IF documentTTL THEN Append(pending, [op |-> "createIndex"]) ELSE pending
    /\ IF fetchAll
         THEN /\ pc' = "scanning"
              /\ UNCHANGED <<ready, stream>>
         ELSE /\ pc' = "done"
              /\ ready' = TRUE
              /\ stream' = WatchAsked
    /\ UNCHANGED <<config, conn, lastSet, closed, enmap, store, feed, rows, callState, extWrites, history>>

\* The server answers db.find({}).toArray() of fetchEverything (line 68).
ScanServed ==
    /\ pc = "scanning"
    /\ ~closed
    /\ rows' = {docs[k] : k \in DOMAIN docs}
    /\ pc' = "scanned"
    /\ UNCHANGED <<config, conn, lastSet, ready, closed, enmap, store, pending, stream, feed,
                   callState, extWrites, history>>

\* The scan fails on a client that close() has closed: init's promise is rejected.
ScanFail ==
    /\ pc = "scanning"
    /\ closed
    /\ pc' = "failed"
    /\ UNCHANGED <<config, conn, lastSet, ready, closed, enmap, store, pending, stream, feed, rows,
                   callState, extWrites, history>>

\* A loop that is left after its first row.
MutSetRowsFirstOnly(m, rs) ==
    IF rs = {} THEN m
    ELSE LET row == CHOOSE r \in rs : TRUE IN MapSet(m, row._id, row.value)

\* The loop of fetchEverything (lines 69-71): Map.prototype.set for every row.
RECURSIVE SetRows(_, _)
SetRows(m, rs) ==
    IF rs = {} THEN m
    ELSE LET row == CHOOSE r \in rs : TRUE
         IN  SetRows(MapSet(m, row._id, row.value), rs \ {row})

\* fetchEverything resumes with the rows, then this.ready() (line 38) and the
\* change stream (lines 42-52).
Hydrate ==
    /\ pc = "scanned"
    /\ enmap' = SetRows(enmap, rows)
    /\ ready' = TRUE
    /\ stream' = WatchAsked
    /\ pc' = "done"
    /\ UNCHANGED <<config, conn, lastSet, closed, store, pending, feed, rows, callState, extWrites, history>>

\* The server establishes the change stream: changes committed from now on are recorded.
WatchOpen ==
    /\ stream = "opening"
    /\ ~closed
    /\ stream' = "open"
    /\ UNCHANGED <<config, conn, lastSet, pc, ready, closed, enmap, store, pending, feed, rows,
                   callState, extWrites, history>>

----------------------------------------------------------------------------
(* set, delete, fetch, bulkDelete, close *)

\* A check of the key that only asks whether it is truthy.
MutSetRejectsFalsy(k) == ~Truthy(k)

\* Line 82: !key || !['String', 'Number'].includes(key.constructor.name)
SetRejects(k) == ~Truthy(k) \/ ConstructorName(k) \notin {"String", "Number"}

\* An operation started on this.db and not awaited; on a closed client it fails at once.
Start(o) == IF closed THEN pending ELSE Append(pending, o)

\* The pending db.findOne of key k stops counting as issued after a delete.
SetSeen(k) ==
    IF fetchReq # <<>> /\ fetchReq[1].key = k
      THEN <<[fetchReq[1] EXCEPT !.afterDel = FALSE]>>
      ELSE fetchReq

\* A history variable takes its new value only in a run that keeps them.
Track(new, old) == IF tracked THEN new ELSE old

\* set(key, val, ttl), lines 81-90.
set(k, v, t) ==
    /\ calls < MaxCalls
    /\ calls' = calls + 1
    /\ IF SetRejects(k)
         THEN /\ setResult' = "ValidationError"
              /\ rejectedKey' = k
              /\ UNCHANGED <<pending, delSince, gone, bulkNoSet, bulkClean, fetchReq, lastSet>>
         ELSE IF ~DbDefined
         THEN /\ setResult' = "TypeError"
              /\ UNCHANGED <<pending, delSince, gone, bulkNoSet, bulkClean, fetchReq, rejectedKey,
                             lastSet>>
         ELSE /\ setResult' = "ok"
              /\ pending' = Start([op |-> "update", key |-> k, doc |-> Doc(k, v, t)])
              /\ delSince' = Track(delSince \ {k}, delSince)
              /\ gone' = Track(gone \ {k}, gone)
              /\ bulkNoSet' = FALSE
              /\ bulkClean' = FALSE
              /\ fetchReq' = SetSeen(k)
              /\ lastSet' = Track(MapSet(lastSet, k, v), lastSet)
              /\ UNCHANGED rejectedKey
    /\ UNCHANGED <<config, conn, pc, ready, closed, enmap, store, stream, feed, handled, rows,
                   fetched, bulk, extWrites, tracked>>

\* The public set(k, v) of the Map's owner, for a key set accepts on a
\* connected adapter: it stores v in the Map and then calls set(k, v) of the
\* adapter (lines 81-90, no ttl).
EnmapSet(k, v) ==
    /\ DbDefined
    /\ ~SetRejects(k)
    /\ calls < MaxCalls
    /\ calls' = calls + 1
    /\ enmap' = MapSet(enmap, k, v)
    /\ setResult' = "ok"
    /\ pending' = Start([op |-> "update", key |-> k, doc |-> Doc(k, v, "undefined")])
    /\ delSince' = Track(delSince \ {k}, delSince)
    /\ gone' = Track(gone \ {k}, gone)
    /\ bulkNoSet' = FALSE
    /\ bulkClean' = FALSE
    /\ fetchReq' = SetSeen(k)
    /\ lastSet' = Track(MapSet(lastSet, k, v), lastSet)
    /\ UNCHANGED <<config, conn, pc, ready, closed, store, stream, feed, handled, rows,
                   fetched, rejectedKey, bulk, extWrites, tracked>>

\* delete(key), lines 97-99.
delete(k) ==
    /\ DbDefined
    /\ calls < MaxCalls
    /\ calls' = calls + 1
    /\ pending' = Start([op |-> "remove", key |-> k])
    /\ delSince' = Track(delSince \cup {k}, delSince)
    /\ UNCHANGED <<config, conn, lastSet, pc, ready, closed, enmap, store, stream, feed, handled, rows,
                   fetchReq, fetched, setResult, rejectedKey, bulk, extWrites,
                   gone, bulkNoSet, bulkClean, tracked>>

\* fetch(key), lines 63-65: db.findOne is sent; its promise is what fetch returns.
fetch(k) ==
    /\ DbDefined
    /\ ~closed
    /\ calls < MaxCalls
    /\ fetchReq = <<>>
    /\ calls' = calls + 1
    /\ fetchReq' = <<[key |-> k, afterDel |-> k \in delSince]>>
    /\ UNCHANGED <<config, conn, lastSet, pc, ready, closed, enmap, store, pending, stream, feed, handled,
                   rows, fetched, setResult, rejectedKey, bulk, extWrites, history>>

\* The server answers the db.findOne: the document with that _id, or null (<<>>).
FetchServed ==
    /\ fetchReq # <<>>
    /\ ~closed
    /\ LET k == fetchReq[1].key IN
         fetched' = <<[key |-> k,
                       doc |-> IF k \in DOMAIN docs THEN <<docs[k]>> ELSE <<>>,
                       afterDel |-> fetchReq[1].afterDel,
                       gone |-> k \in gone,
                       alone |-> extWrites = 0]>>
    /\ fetchReq' = <<>>
    /\ UNCHANGED <<config, conn, lastSet, pc, ready, closed, enmap, store, pending, stream, feed, handled,
                   rows, setResult, rejectedKey, bulk, calls, extWrites, history>>

\* bulkDelete(), lines 109-111: db.drop() is sent; its promise is returned.
bulkDelete ==
    /\ DbDefined
    /\ ~closed
    /\ calls < MaxCalls
    /\ bulk \notin {"pending", "applied", "failing"}
    /\ calls' = calls + 1
    /\ pending' = Start([op |-> "drop"])
    /\ bulk' = "pending"
    /\ bulkNoSet' = tracked
    /\ bulkClean' = tracked
    /\ UNCHANGED <<config, conn, lastSet, pc, ready, closed, enmap, store, stream, feed, handled, rows,
                   fetchReq, fetched, setResult, rejectedKey, extWrites, delSince, gone, tracked>>

\* The promise of db.drop() settles with the server's answer.
BulkSettles ==
    /\ bulk \in {"applied", "failing"}
    /\ ~closed
    /\ bulk' = IF bulk = "applied" THEN "resolved" ELSE "rejected"
    /\ UNCHANGED <<config, conn, lastSet, pc, ready, closed, enmap, store, pending, stream, feed, handled,
                   rows, fetchReq, fetched, setResult, rejectedKey, calls, extWrites, history>>

\* close(), lines 59-61: this.client.close().  The change stream and the reads
\* and the drop that still wait for an answer end with the connection.
close ==
    /\ DbDefined
    /\ calls < MaxCalls
    /\ calls' = calls + 1
    /\ closed' = TRUE
    /\ closes' = closes + 1
    /\ stream' = IF stream \in {"opening", "open"} THEN "closed" ELSE stream
    /\ fetchReq' = <<>>
    /\ bulk' = IF bulk \in {"pending", "applied", "failing"} THEN "failed" ELSE bulk
    /\ UNCHANGED <<config, opens, lastSet, pc, ready, enmap, store, pending, feed, handled, rows,
                   fetched, setResult, rejectedKey, extWrites, history>>

----------------------------------------------------------------------------
(* The server: it applies the operations in flight in any order, since none *)
(* of them is awaited before the next one is started.                       *)

Remove(q, i) == [j \in 1..(Len(q) - 1) |-> IF j < i THEN q[j] ELSE q[j + 1]]

\* The change event of an upsert that replaces the whole document.
UpsertEvents(k, d) ==
    IF k \notin DOMAIN docs
      THEN <<[operationType |-> "insert", documentKey |-> [_id |-> k], fullDocument |-> d]>>
    ELSE IF docs[k] = d THEN <<>>
    ELSE <<[operationType |-> "replace", documentKey |-> [_id |-> k], fullDocument |-> d]>>

DeleteEvents(k) ==
    IF k \in DOMAIN docs
      THEN <<[operationType |-> "delete", documentKey |-> [_id |-> k]]>>
      ELSE <<>>

UpsertInFlight(q, k) == \E j \in 1..Len(q) : q[j].op = "update" /\ q[j].key = k
AnyUpsertInFlight(q) == \E j \in 1..Len(q) : q[j].op = "update"

\* db.update({_id: key}, doc, {upsert: true}) of set, lines 86 and 88.
ApplyUpdate(o, rest) ==
    /\ docs' = MapSet(docs, o.key, o.doc)
    /\ collExists' = TRUE
    /\ feed' = Emit(UpsertEvents(o.key, o.doc))
    /\ UNCHANGED <<ttlIndex, stream, bulk, history>>

\* A remove whose filter matches no document.
MutRemoveNone(d, k) == d

\* The collection after db.remove({_id: key}, {single: true}), line 98.
RemoveOne(d, k) == MapDelete(d, k)

\* The server applies the remove of delete.
ApplyRemove(o, rest) ==
    /\ docs' = RemoveOne(docs, o.key)
    /\ feed' = Emit(DeleteEvents(o.key))
    /\ gone' = IF o.key \in delSince /\ ~UpsertInFlight(rest, o.key)
                 THEN gone \cup {o.key} ELSE gone
    /\ UNCHANGED <<collExists, ttlIndex, stream, bulk, delSince, bulkNoSet, bulkClean, handled,
                   tracked>>

\* A bulkDelete that removes one document only.
MutDropOne(d) == IF d = EmptyMap THEN d ELSE MapDelete(d, CHOOSE k \in DOMAIN d : TRUE)

\* The documents left by db.drop(), line 110: none.
DropAll(d) == EmptyMap

\* db.drop() of bulkDelete, line 110: the collection goes with its indexes; a
\* collection that does not exist is an error ("ns not found").  A stream on
\* the collection records the drop and is invalidated.
ApplyDrop(o, rest) ==
    /\ docs' = DropAll(docs)
    /\ collExists' = FALSE
    /\ ttlIndex' = FALSE
    /\ feed' = IF collExists
                 THEN Emit(<<[operationType |-> "drop"], [operationType |-> "invalidate"]>>)
                 ELSE feed
    /\ stream' = IF collExists /\ stream = "open" THEN "invalidated" ELSE stream
    /\ bulk' = IF bulk # "pending" THEN bulk
               ELSE IF collExists THEN "applied" ELSE "failing"
    /\ bulkClean' = (bulkClean /\ ~AnyUpsertInFlight(rest))
    /\ UNCHANGED <<delSince, gone, bulkNoSet, handled, tracked>>

\* db.createIndex({expireAt: 1}, {expireAfterSeconds: 0}) of init, line 34.
ApplyCreateIndex(o, rest) ==
    /\ collExists' = TRUE
    /\ ttlIndex' = TRUE
    /\ UNCHANGED <<docs, feed, stream, bulk, history>>

ApplyWrite(i) ==
    /\ i \in 1..Len(pending)
    /\ LET o == pending[i]
           rest == Remove(pending, i)
       IN  /\ pending' = rest
           /\ CASE o.op = "update" -> ApplyUpdate(o, rest)
                [] o.op = "remove" -> ApplyRemove(o, rest)
                [] o.op = "drop" -> ApplyDrop(o, rest)
                [] o.op = "createIndex" -> ApplyCreateIndex(o, rest)
    /\ UNCHANGED <<config, conn, lastSet, pc, ready, closed, enmap, rows, fetchReq, fetched,
                   setResult, rejectedKey, calls, extWrites>>

\* An operation in flight when the client was closed may never reach the server.
WriteLost(i) ==
    /\ closed
    /\ i \in 1..Len(pending)
    /\ pending' = Remove(pending, i)
    /\ UNCHANGED <<config, conn, lastSet, pc, ready, closed, enmap, store, stream, feed, rows,
                   callState, extWrites, history>>

----------------------------------------------------------------------------
(* Other processes that write to the same collection. *)

ExtUpsert(k, v) ==
    /\ extWrites < MaxExt
    /\ extWrites' = extWrites + 1
    /\ docs' = MapSet(docs, k, Doc(k, v, "undefined"))
    /\ collExists' = TRUE
    /\ feed' = Emit(UpsertEvents(k, Doc(k, v, "undefined")))
    /\ UNCHANGED <<config, conn, lastSet, pc, ready, closed, enmap, ttlIndex, pending, stream, rows,
                   callState, history>>

\* An update of one field of the value ({$set: {"value.fld": x}}).
ExtUpdateField(k, fld, x) ==
    /\ extWrites < MaxExt
    /\ k \in DOMAIN docs
    /\ docs[k].value[fld] # x
    /\ extWrites' = extWrites + 1
    /\ LET d == [docs[k] EXCEPT !.value = [docs[k].value EXCEPT ![fld] = x]] IN
         /\ docs' = [docs EXCEPT ![k] = d]
         /\ feed' = Emit(<<[operationType |-> "update", documentKey |-> [_id |-> k],
                            updatedFields |-> <<fld, x>>, fullDocument |-> d]>>)
    /\ UNCHANGED <<config, conn, lastSet, pc, ready, closed, enmap, collExists, ttlIndex, pending, stream,
                   rows, callState, history>>

ExtDelete(k) ==
    /\ extWrites < MaxExt
    /\ k \in DOMAIN docs
    /\ extWrites' = extWrites + 1
    /\ docs' = MapDelete(docs, k)
    /\ feed' = Emit(DeleteEvents(k))
    /\ UNCHANGED <<config, conn, lastSet, pc, ready, closed, enmap, collExists, ttlIndex, pending, stream,
                   rows, callState, history>>

----------------------------------------------------------------------------
(* The "change" listener of init, lines 44-51. *)

\* A listener whose delete branch empties the Map.
MutChangeHandlerClears(m, change) ==
    IF change.operationType = "insert"
      THEN MapSet(m, change.fullDocument._id, change.fullDocument.value)
    ELSE IF change.operationType = "delete"
      THEN EmptyMap
    ELSE m

\* What the listener makes of the Map.
ChangeHandler(m, change) ==
    IF change.operationType = "insert"
      THEN MapSet(m, change.fullDocument._id, change.fullDocument.value)
    ELSE IF change.operationType = "delete"
      THEN MapDelete(m, change.documentKey._id)
    ELSE m

\* A listener that goes through the public set of the Map, which persists.
MutHandlerWritesBack(change) ==
    IF change.operationType = "insert"
      THEN <<[op |-> "update", key |-> change.fullDocument._id,
              doc |-> [_id |-> change.fullDocument._id, value |-> change.fullDocument.value]]>>
      ELSE <<>>

\* The operations the listener starts on this.db: none, it uses Map.prototype.
HandlerWrites(change) == <<>>

HandleChange ==
    /\ feed # <<>>
    /\ enmap' = ChangeHandler(enmap, Head(feed))
    /\ pending' = pending \o HandlerWrites(Head(feed))
    /\ handled' = <<Head(feed)>>
    /\ feed' = Tail(feed)
    /\ UNCHANGED <<config, conn, lastSet, pc, ready, closed, store, stream, rows, callState, extWrites,
                   delSince, gone, bulkNoSet, bulkClean, tracked>>

\* Events buffered when the client was closed may never reach the listener.
FeedDropped ==
    /\ closed
    /\ feed # <<>>
    /\ feed' = <<>>
    /\ UNCHANGED <<config, conn, lastSet, pc, ready, closed, enmap, store, pending, stream, rows,
                   callState, extWrites, history>>

----------------------------------------------------------------------------

(* Every operation of the adapter, of the server and of the other processes. *)
Next ==
    \/ InitCall
    \/ InitRetry
    \/ ConnectOk
    \/ ConnectFail
    \/ ScanServed
    \/ ScanFail
    \/ Hydrate
    \/ WatchOpen
    \/ \E k \in Keys, v \in SetValues, t \in TtlArgs : set(k, v, t)
    \/ \E k \in StoreKeys, v \in SetValues : EnmapSet(k, v)
    \/ \E k \in StoreKeys : delete(k)
    \/ \E k \in StoreKeys : fetch(k)
    \/ FetchServed
    \/ bulkDelete
    \/ BulkSettles
    \/ close
    \/ \E i \in 1..Len(pending) : ApplyWrite(i)
    \/ \E i \in 1..Len(pending) : WriteLost(i)
    \/ \E k \in StoreKeys, v \in ExtValues : ExtUpsert(k, v)
    \/ \E k \in StoreKeys, fld \in Fields, x \in FieldVals : ExtUpdateField(k, fld, x)
    \/ \E k \in StoreKeys : ExtDelete(k)
    \/ HandleChange
    \/ FeedDropped

Spec == Init /\ [][Next]_vars

(* The properties are checked on parts of Spec, each with the operations and *)
(* the configurations its properties are about.                             *)

(* The change stream: an adapter with monitorChanges, its own writes and the *)
(* writes of other processes, and the listener.                              *)
InitFeed == Init /\ monitorChanges /\ ~documentTTL /\ enmap = EmptyMap /\ ~tracked

NextFeed ==
    \/ InitCall
    \/ ConnectOk
    \/ ScanServed
    \/ Hydrate
    \/ WatchOpen
    \/ \E k \in StoreKeys, v \in SetValues :
          DbDefined /\ calls < MaxFeedCalls /\ set(k, v, "undefined")
    \/ \E k \in StoreKeys : calls < MaxFeedCalls /\ delete(k)
    \/ calls < MaxFeedCalls /\ bulkDelete
    \/ BulkSettles
    \/ \E i \in 1..Len(pending) : ApplyWrite(i)
    \/ \E k \in StoreKeys, v \in ExtValues : ExtUpsert(k, v)
    \/ \E k \in StoreKeys, fld \in Fields, x \in FieldVals : ExtUpdateField(k, fld, x)
    \/ \E k \in StoreKeys : ExtDelete(k)
    \/ HandleChange

SpecFeed == InitFeed /\ [][NextFeed]_vars

(* The constructor alone, on every name of Names. *)
InitName ==
    /\ pc = "new"
    /\ optName = <<>>
    /\ name = <<>>
    /\ fetchAll = FALSE
    /\ documentTTL = FALSE
    /\ monitorChanges = FALSE
    /\ ready = FALSE
    /\ closed = FALSE
    /\ enmap = EmptyMap
    /\ docs = EmptyMap
    /\ collExists = FALSE
    /\ ttlIndex = FALSE
    /\ pending = <<>>
    /\ stream = "none"
    /\ feed = <<>>
    /\ handled = <<>>
    /\ rows = {}
    /\ fetchReq = <<>>
    /\ fetched = <<>>
    /\ setResult = "none"
    /\ rejectedKey = "undefined"
    /\ bulk = "none"
    /\ calls = 0
    /\ extWrites = 0
    /\ delSince = {}
    /\ gone = {}
    /\ bulkNoSet = FALSE
    /\ bulkClean = FALSE
    /\ tracked = FALSE
    /\ opens = 0
    /\ closes = 0
    /\ lastSet = EmptyMap

NextName == \E n \in Names, ttl \in BOOLEAN, mon \in BOOLEAN : Constructor(n, ttl, mon)

SpecName == InitName /\ [][NextName]_vars

(* The check of the key: set is called with every key of Keys. *)
InitKeys ==
    Init /\ ~fetchAll /\ ~monitorChanges /\ ~documentTTL /\ enmap = EmptyMap /\ ~tracked

NextKeys ==
    \/ InitCall
    \/ ConnectOk
    \/ \E k \in Keys, v \in SetValues, t \in TtlArgs : set(k, v, t)
    \/ \E i \in 1..Len(pending) : ApplyWrite(i)
    \/ \E k \in StoreKeys : fetch(k)
    \/ FetchServed

SpecKeys == InitKeys /\ [][NextKeys]_vars

(* init: the connection, the scan and the hydration of the Map, with writers *)
(* and close() at work meanwhile.                                            *)
InitHydrate == Init /\ ~tracked

NextHydrate ==
    \/ InitCall
    \/ ConnectOk
    \/ ConnectFail
    \/ ScanServed
    \/ ScanFail
    \/ Hydrate
    \/ WatchOpen
    \/ \E k \in StoreKeys, v \in SetValues :
          DbDefined /\ calls < MaxFeedCalls /\ set(k, v, "undefined")
    \/ calls < MaxFeedCalls /\ close
    \/ \E i \in 1..Len(pending) : ApplyWrite(i)
    \/ \E k \in StoreKeys, v \in ExtValues : ExtUpsert(k, v)
    \/ \E k \in StoreKeys : ExtDelete(k)
    \/ HandleChange

SpecHydrate == InitHydrate /\ [][NextHydrate]_vars

(* init and close alone: the connection, the scan, the hydration and the     *)
(* change stream, with other processes writing meanwhile, close() called at  *)
(* any time and init called again after a failed connection.                 *)
NextInit ==
    \/ InitCall
    \/ InitRetry
    \/ ConnectOk
    \/ ConnectFail
    \/ ScanServed
    \/ ScanFail
    \/ Hydrate
    \/ WatchOpen
    \/ calls < MaxFeedCalls /\ close
    \/ \E i \in 1..Len(pending) : ApplyWrite(i)
    \/ \E k \in StoreKeys, v \in ExtValues : ExtUpsert(k, v)
    \/ \E k \in StoreKeys : ExtDelete(k)
    \/ HandleChange
    \/ FeedDropped

SpecInit == InitHydrate /\ [][NextInit]_vars

(* The same with the scheduling of init: the promise of MongoClient.connect  *)
(* and that of the scan settle, and the continuation of an await that has    *)
(* settled runs.                                                             *)
SpecInitFair ==
    /\ InitHydrate
    /\ [][NextInit]_vars
    /\ WF_vars(ConnectOk \/ ConnectFail)
    /\ WF_vars(ScanServed \/ ScanFail)
    /\ WF_vars(Hydrate)

(* The store without a change stream: the writes and reads of the adapter in *)
(* flight, and one other writer.                                             *)
InitStore ==
    Init /\ ~fetchAll /\ ~monitorChanges /\ ~documentTTL /\ enmap = EmptyMap /\ tracked

NextStore ==
    \/ InitCall
    \/ ConnectOk
    \/ \E k \in StoreKeys, v \in SetValues, t \in {"undefined", "T1"} : DbDefined /\ set(k, v, t)
    \/ \E k \in StoreKeys : delete(k)
    \/ \E k \in StoreKeys : fetch(k)
    \/ FetchServed
    \/ bulkDelete
    \/ BulkSettles
    \/ close
    \/ \E i \in 1..Len(pending) : ApplyWrite(i)
    \/ \E i \in 1..Len(pending) : WriteLost(i)
    \/ \E k \in StoreKeys, v \in ExtValues : ExtUpsert(k, v)

SpecStore == InitStore /\ [][NextStore]_vars

(* One adapter as the only writer, and set the only method it is called with. *)
NextSets ==
    \/ InitCall
    \/ ConnectOk
    \/ \E k \in StoreKeys, v \in SetValues, t \in {"undefined", "T1"} : DbDefined /\ set(k, v, t)
    \/ \E i \in 1..Len(pending) : ApplyWrite(i)

SpecSets == InitStore /\ [][NextSets]_vars

(* An adapter with documentTTL: the index asked for by init, sets with and   *)
(* without a ttl, bulkDelete and close.                                      *)
InitTTL ==
    Init /\ documentTTL /\ ~fetchAll /\ ~monitorChanges /\ enmap = EmptyMap /\ ~tracked

NextTTL ==
    \/ InitCall
    \/ ConnectOk
    \/ \E k \in StoreKeys, v \in SetValues, t \in {"undefined", "T1"} : DbDefined /\ set(k, v, t)
    \/ bulkDelete
    \/ BulkSettles
    \/ close
    \/ \E i \in 1..Len(pending) : ApplyWrite(i)

SpecTTL == InitTTL /\ [][NextTTL]_vars

(* The Map's owner as the only writer, setting values once readiness is      *)
(* resolved, with the change stream handing the adapter's own writes back to *)
(* the listener.                                                             *)
InitEcho == Init /\ monitorChanges /\ ~documentTTL /\ enmap = EmptyMap /\ tracked

NextEcho ==
    \/ InitCall
    \/ ConnectOk
    \/ ScanServed
    \/ Hydrate
    \/ WatchOpen
    \/ \E k \in StoreKeys, v \in SetValues : ready /\ EnmapSet(k, v)
    \/ \E i \in 1..Len(pending) : ApplyWrite(i)
    \/ HandleChange

SpecEcho == InitEcho /\ [][NextEcho]_vars

----------------------------------------------------------------------------
(* Properties. *)

Alnum == Range(LowerAlpha) \cup Range(UpperAlpha) \cup Digits
StringOrNumber(k) == TypeOf(k) \in {"string", "number"}

\* C1: for every key that is a string or a number, with no further
\* restriction, and every value, set(k, v) on a connected adapter is accepted
\* and starts the upsert of {_id: k, value: v} (expireAt with a ttl), which
\* is what a later fetch(k) is to return.
C1_EveryStringOrNumberAccepted ==
    [][\A k \in Keys, v \in SetValues, t \in TtlArgs :
         (StringOrNumber(k) /\ DbDefined /\ ~closed /\ set(k, v, t))
           => /\ setResult' = "ok"
              /\ pending' = Append(pending, [op |-> "update", key |-> k, doc |-> Doc(k, v, t)])
      ]_vars

MapOf(d) == [k \in DOMAIN d |-> d[k].value]

\* C3: when init with fetchAll completes on an empty Map and nothing has
\* written to the collection meanwhile (no call of the adapter, no other
\* process), readiness is resolved and the keys of the Map are exactly the
\* _ids of the collection, each with the value of its document.
C3_HydratedMapIsStore ==
    [][(Hydrate /\ fetchAll /\ enmap = EmptyMap /\ calls = 0 /\ extWrites = 0)
         => /\ ready'
            /\ DOMAIN enmap' = DOMAIN docs'
            /\ enmap' = MapOf(docs')
      ]_vars

\* init with fetchAll has completed on an empty Map over a collection of two
\* documents, with no writer.
C3_Witness ==
    /\ fetchAll
    /\ pc = "done"
    /\ ready
    /\ calls = 0
    /\ extWrites = 0
    /\ DOMAIN docs = {"'a'", "1"}
    /\ DOMAIN enmap = {"'a'", "1"}
    /\ enmap["'a'"] = V10
    /\ enmap["1"] = V00

\* An upsert, a remove or a drop is started on this.db in this step.
IssuesWrite ==
    /\ Len(pending') = Len(pending) + 1
    /\ SubSeq(pending', 1, Len(pending)) = pending
    /\ pending'[Len(pending')].op \in {"update", "remove", "drop"}

\* C4: neither the hydration nor the listener starts a write on the store:
\* a write is started only by a call of set, delete or bulkDelete.
C4_OnlyCallsWrite ==
    [][/\ IssuesWrite
          => LET o == pending'[Len(pending')] IN
               \/ o.op = "update" /\ \E t \in TtlArgs : set(o.key, o.doc.value, t)
               \/ o.op = "remove" /\ delete(o.key)
               \/ o.op = "drop" /\ bulkDelete
       /\ (Hydrate \/ HandleChange) => pending' = pending
      ]_vars

\* The Map was hydrated with 'a' and 1 and the listener has handled a change
\* made by another process, and no write was ever started.
C4_Witness ==
    /\ fetchAll
    /\ ready
    /\ calls = 0
    /\ extWrites = 1
    /\ pending = <<>>
    /\ feed = <<>>
    /\ handled # <<>>
    /\ DOMAIN enmap = {"1"}
    /\ docs = MapSet(EmptyMap, "1", Doc("1", V00, "T1"))

\* C5: after the listener has handled an insert or a replace event with the
\* full document {_id, value}, the Map maps _id to value, whether or not it
\* held an entry for _id before.
C5_InsertOrReplaceUpserts ==
    [][(feed # <<>> /\ HandleChange /\ Head(feed).operationType \in {"insert", "replace"})
         => LET d == Head(feed).fullDocument IN
              /\ d._id \in DOMAIN enmap'
              /\ enmap'[d._id] = d.value
      ]_vars

\* C6: after the listener has handled an update event that changes one
\* top-level field of the object held under _id, the value of _id in the Map
\* has the new content in that field and every other field as before.
C6_UpdateMergesOneField ==
    [][(/\ feed # <<>>
        /\ HandleChange
        /\ Head(feed).operationType = "update"
        /\ Head(feed).documentKey._id \in DOMAIN enmap)
         => LET id == Head(feed).documentKey._id
                fld == Head(feed).updatedFields[1]
                x == Head(feed).updatedFields[2]
            IN  /\ id \in DOMAIN enmap'
                /\ enmap'[id][fld] = x
                /\ \A g \in Fields \ {fld} : enmap'[id][g] = enmap[id][g]
      ]_vars

\* C7: after the listener has handled a delete event for _id, the Map has no
\* entry for _id and every other entry is as before.
C7_DeleteRemovesOnlyId ==
    [][(feed # <<>> /\ HandleChange /\ Head(feed).operationType = "delete")
         => LET id == Head(feed).documentKey._id IN
              /\ id \notin DOMAIN enmap'
              /\ DOMAIN enmap' = DOMAIN enmap \ {id}
              /\ \A k \in DOMAIN enmap' : enmap'[k] = enmap[k]
      ]_vars

\* The listener has handled the delete of 'a': the Map, hydrated with 'a'
\* and 1, holds 1 only.
C7_Witness ==
    /\ handled # <<>>
    /\ handled[1].operationType = "delete"
    /\ handled[1].documentKey._id = "'a'"
    /\ DOMAIN enmap = {"1"}
    /\ enmap["1"] = V00

\* C8: a fetch(k) issued after delete(k) has returned yields null, provided
\* no set of k is called after the delete (and no other process writes).
C8_FetchAfterDeleteIsNull ==
    (fetched # <<>> /\ fetched[1].afterDel /\ fetched[1].alone) => fetched[1].doc = <<>>

\* C8, amended: a fetch(k) answered after the server has applied the remove
\* of delete(k) yields null, provided no upsert of k was in flight when the
\* remove was applied, no set of k is called after the delete and no other
\* process writes.
C8_FetchAfterRemoveIsNull ==
    (fetched # <<>> /\ fetched[1].gone /\ fetched[1].alone) => fetched[1].doc = <<>>

\* fetch('a') was issued after delete('a') and answered null after the remove
\* of the document 'a' was applied; the document 1 is still there.
C8_Witness ==
    /\ fetched # <<>>
    /\ fetched[1].key = "'a'"
    /\ fetched[1].afterDel
    /\ fetched[1].gone
    /\ fetched[1].alone
    /\ fetched[1].doc = <<>>
    /\ DOMAIN docs = {"1"}

\* C9: once the promise of bulkDelete() is resolved, the collection holds no
\* document (a scan returns nothing), provided no set is called after
\* bulkDelete was called; sets called before it may still be in flight.
C9_BulkDeleteLeavesNothing ==
    (bulk = "resolved" /\ bulkNoSet /\ extWrites = 0) => docs = EmptyMap

\* C9, amended: the same, provided also that no upsert of an earlier set was
\* still in flight when the server applied the drop, and no other process
\* writes.
C9_CleanBulkDeleteLeavesNothing ==
    (bulk \in {"resolved", "rejected"} /\ bulkClean /\ extWrites = 0)
      => /\ docs = EmptyMap
         /\ {docs[k] : k \in DOMAIN docs} = {}

\* bulkDelete() was resolved after a set whose upsert the server had applied
\* before the drop: nothing is left.
C9_Witness ==
    /\ bulk = "resolved"
    /\ bulkClean
    /\ extWrites = 0
    /\ setResult = "ok"
    /\ pending = <<>>
    /\ docs = EmptyMap

\* C10: for every non-empty name given to the constructor, this.name
\* matches ^[a-z0-9_]+$, is as long as the name given, and is that name with
\* every character outside [A-Za-z0-9] replaced by "_" and the others in
\* lower case; "My Collection!" becomes "my_collection_".
C10_NameSanitized ==
    pc = "constructed" =>
      /\ Len(optName) > 0
      /\ Len(name) = Len(optName)
      /\ \A i \in 1..Len(name) : name[i] \in Range(LowerAlpha) \cup Digits \cup {"_"}
      /\ \A i \in 1..Len(name) :
           name[i] = IF optName[i] \in Alnum THEN toLowerChar(optName[i]) ELSE "_"
      /\ optName = MyCollection
           => name = <<"m","y","_","c","o","l","l","e","c","t","i","o","n","_">>

\* The constructor was given "My Collection!".
C10_Witness ==
    /\ pc = "constructed"
    /\ optName = MyCollection
    /\ name = <<"m","y","_","c","o","l","l","e","c","t","i","o","n","_">>

\* The connection is open: this.client is there and close() was not called.
ConnectionOpen == DbDefined /\ ~closed

\* Every row of the scan is in the Map under its _id.
RowsInserted(m) == \A r \in rows : r._id \in DOMAIN m /\ m[r._id] = r.value

\* C11: in every state in which readiness is resolved the connection is
\* open; with fetchAll every row of the scan is in the Map when readiness is
\* resolved; and every init whose connection and scan do not fail resolves
\* readiness in the end.
C11_ReadyMeansOpenAndHydrated ==
    /\ [](ready => ConnectionOpen)
    /\ [][(~ready /\ ready') => (fetchAll => RowsInserted(enmap'))]_vars
    /\ (pc = "connecting") ~> (ready \/ pc = "failed")

\* C11, amended: in every state in which readiness is resolved init has
\* connected and is done, and the connection is open unless close() has been
\* called; with fetchAll every row of the scan is in the Map at the step that
\* resolves readiness; and every init whose connection and scan do not fail
\* resolves readiness in the end.
C11_ReadyMeansConnectedAndHydrated ==
    /\ [](ready => (pc = "done" /\ DbDefined /\ (~closed => ConnectionOpen)))
    /\ [][(~ready /\ ready') => (pc' = "done" /\ (fetchAll => RowsInserted(enmap')))]_vars
    /\ (pc = "connecting") ~> (ready \/ pc = "failed")

\* Readiness is resolved after a scan of two documents into a Map that held
\* another entry, on an open connection.
C11_Witness ==
    /\ ready
    /\ fetchAll
    /\ ~closed
    /\ Cardinality(rows) = 2
    /\ RowsInserted(enmap)
    /\ DOMAIN enmap = {"'a'", "1", "0"}

\* init's promise was rejected by a failed connection and init has not been
\* called again.
ConnectFailed == pc = "failed" /\ ~closed

\* C12: when the connection fails during init, the promise of init is
\* rejected, and from then on, as long as the owner does not call init again,
\* the adapter makes no further connection attempt, readiness stays
\* unresolved and the Map is as it was.
C12_ConnectFailureLeavesAllAsIs ==
    [][/\ ConnectFail => ConnectFailed'
       /\ (ConnectFail \/ (ConnectFailed /\ ~InitRetry))
            => /\ ConnectFailed'
               /\ opens' = opens
               /\ ~ready'
               /\ enmap' = enmap
               /\ stream' = "none"
      ]_vars

\* The first connection has failed, init has not been called again and another
\* process has written to the collection since: the Map still holds what it
\* was given with.
C12_Witness ==
    /\ ConnectFailed
    /\ opens = 1
    /\ ~ready
    /\ extWrites = 1
    /\ monitorChanges
    /\ fetchAll
    /\ enmap = MapSet(EmptyMap, "0", V10)
    /\ DOMAIN docs = {"'a'"}

\* C13: last writer wins on set: with one adapter the only writer, once the
\* upserts of all its calls of set have been applied, the document of every
\* key has the value of the last call of set for that key.
C13_LastWriterWins ==
    pending = <<>> =>
      \A k \in DOMAIN lastSet : k \in DOMAIN docs /\ docs[k].value = lastSet[k]

\* C14: with monitorChanges, every insert, overwrite or delete that another
\* process commits after init was called is reflected in the Map once the
\* change stream is drained.  Where the Map was hydrated by init, this
\* adapter has written nothing and the listener has been handed the changes
\* of the other processes, every key of the Map then has the value of its
\* document, and the Map has no key without a document.
C14_OtherWritersReflected ==
    (/\ monitorChanges
     /\ fetchAll
     /\ pc = "done"
     /\ calls = 0
     /\ extWrites > 0
     /\ stream = "open"
     /\ handled # <<>>
     /\ feed = <<>>)
      => /\ DOMAIN enmap = DOMAIN docs
         /\ \A k \in DOMAIN docs : enmap[k] = docs[k].value

\* C15: whatever init and close calls are made on one adapter, it calls
\* MongoClient.connect at most once, and only inside init, and it calls
\* this.client.close() at most once.
C15_OneOpenOneClose ==
    /\ [](opens <= 1 /\ closes <= 1)
    /\ [][opens' # opens => (InitCall \/ InitRetry)]_vars

\* The server applies the upsert of a set in this step: the document of its
\* key becomes the document of the upsert, whatever it was before, and every
\* other document stays.
UpsertReplaces ==
    \A i \in 1..Len(pending) :
      (ApplyWrite(i) /\ pending[i].op = "update")
        => /\ pending[i].key \in DOMAIN docs'
           /\ docs'[pending[i].key] = pending[i].doc
           /\ \A k \in DOMAIN docs \ {pending[i].key} : k \in DOMAIN docs' /\ docs'[k] = docs[k]

\* C16: the document set(k, v, ttl) writes replaces the whole record of k and
\* is exactly {_id: k, value: v, expireAt: ttl} whenever a ttl argument is
\* given, and exactly {_id: k, value: v} when none is given.
C16_DocumentHasTtlWhenGiven ==
    [][/\ \A k \in StoreKeys, v \in SetValues, t \in TtlArgs :
            (DbDefined /\ ~closed /\ set(k, v, t))
              => pending'[Len(pending')].doc =
                   IF t # "undefined" THEN [_id |-> k, value |-> v, expireAt |-> t]
                                      ELSE [_id |-> k, value |-> v]
       /\ UpsertReplaces
      ]_vars

\* C16, amended: the same with expireAt: ttl whenever the ttl given is truthy,
\* and with no expireAt when no ttl or a falsy one (0, null, '') is given.
C16_DocumentHasTtlWhenTruthy ==
    [][/\ \A k \in StoreKeys, v \in SetValues, t \in TtlArgs :
            (DbDefined /\ ~closed /\ set(k, v, t))
              => pending'[Len(pending')].doc =
                   IF t \notin {"undefined", "0"} THEN [_id |-> k, value |-> v, expireAt |-> t]
                                                 ELSE [_id |-> k, value |-> v]
       /\ UpsertReplaces
      ]_vars

\* Two upserts have been applied: the one of set(1, v) with no ttl over a
\* document that had expireAt, and the one of set('a', v, T1) over a document
\* that had none.
C16_Witness ==
    /\ calls = 2
    /\ pending = <<>>
    /\ DOMAIN docs = {"'a'", "1"}
    /\ docs["1"] = [_id |-> "1", value |-> V01]
    /\ docs["'a'"] = [_id |-> "'a'", value |-> V01, expireAt |-> "T1"]

\* C17: after close() has been called the change stream is over: no change
\* event handed to the listener after close, whether committed before or
\* after it, modifies the Map.
C17_NoChangeHandledAfterClose ==
    [][(closed /\ HandleChange) => enmap' = enmap]_vars

\* C18: with documentTTL, in every state from the resolution of readiness
\* until close, the collection has the index on expireAt with
\* expireAfterSeconds 0, also after any number of completed bulkDelete calls;
\* stated for the states in which no operation of the adapter is in flight.
C18_TtlIndexStays ==
    (documentTTL /\ ready /\ ~closed /\ pending = <<>>) => ttlIndex

\* C19: with monitorChanges and the owner of the Map the only writer, through
\* a public set that stores the value in the Map and then calls set of the
\* adapter: once every upsert in flight is applied and every change event is
\* handed to the listener, the Map holds under every key the value last set
\* for it.
C19_EchoLeavesLastValue ==
    (monitorChanges /\ pending = <<>> /\ feed = <<>>)
      => \A k \in DOMAIN lastSet : k \in DOMAIN enmap /\ enmap[k] = lastSet[k]

====
